---- MODULE Spec2Model ----
(***************************************************************************)
(* State-machine model of word_stat: the incremental synchronisation of    *)
(* three statistics sources (influenza bulletins, Google Trends, Yandex    *)
(* WordStat) into PostgreSQL tables.                                       *)
(*                                                                         *)
(* Tables are sets of rows carrying the SERIAL id the store assigned.      *)
(* Python lists are sequences.  Every step of a cycle that talks to the    *)
(* store or to a provider is one action; the outcome of the call (value,   *)
(* network failure, store failure) is chosen by the environment.           *)
(***************************************************************************)
EXTENDS Integers, Sequences, FiniteSets, TLC

(* Python None / SQL NULL, and the "error" string get_max_week_number      *)
(* returns; both encoded as integers outside every value domain.           *)
None == 0 - 1
DbError == 0 - 2
(* The TypeError a call raises, as the value of the call.                  *)
TypeError == 0 - 3

-----------------------------------------------------------------------------
(* Bounds of the model.                                                    *)

\* Requests (threads, processes) that may run a cycle.
NProcs == 2
\* Cycles started in one behaviour.
MaxCycles == 2
\* Weeks 1..k already stored when the model starts, k <= StoredWeeks.
StoredWeeks == 10
\* Published weeks not yet stored at any time.
MaxNew == 2
\* Failures of the store, the network or a provider in one behaviour.
MaxFaults == 1
\* Rows a table holds when the gateway operations are applied on their own.
MaxRows == 4

Procs == 1..NProcs

\* The year the bulletin requests ask for (app.py default).
FluYear == 2022

\* The value a bulletin page yields when the sentence is found and parsed.
Rate == 7

\* Registry size of the multi-chunk scenarios (chunks of 10 and 2).
ManyPhrases == 12
\* Registry size and stored phrases_number of the quota scenario.
QuotaPhrases == 100
QuotaUsed == 950

(* Program constants of WordStatApiClient.                                 *)
DailyLimit == 1000
ChunkSize == 10
TimeStep == 20
Timeout == 100
\* timedelta(days=1), in hours: the unit of the clock.
Day == 24
\* "It can have max 5 reports."
MaxReports == 5
\* The last week of a year, as GoogleTrendsApi takes it (lines 38, 105).
LastWeek == 52

\* The number of shows the provider reports for a phrase.
Shows == 5

-----------------------------------------------------------------------------
VARIABLES
    mode,            \* "seq": one cycle at a time; "conc": cycles overlap
    source,          \* the source whose cycles the behaviour runs
    cycles,          \* cycles started so far
    faults,          \* store, network and provider failures so far
    influenza_stat,  \* table influenza_stat
    flu_seq,         \* last id the SERIAL of influenza_stat handed out
    published,       \* the bulletin site lists weeks 1..published
    flu,             \* per request: the locals of update_statistics_data
    now,             \* the wall clock (datetime.now()), in hours
    today,           \* date.today(): [year, month, week], week as %W gives it
    phrases,         \* table phrases (the phrase registry)
    ph_seq,          \* last id of phrases
    yandex_word_stat,       \* table yandex_word_stat
    ya_seq,                 \* last id of yandex_word_stat
    last_ya_word_stat_req,  \* table last_ya_word_stat_req (QuotaState)
    req_seq,                \* last id of last_ya_word_stat_req
    nodata,          \* phrases the provider's reports carry no entry for
    reports,         \* ids of the reports the provider holds
    rep_seq,         \* last report id the provider handed out
    sent,            \* log of accepted report requests: <<time, phrases>>
    ya,              \* per caller: the locals of update_phrase_statistics
    google_trends_stat,     \* table google_trends_stat
    gt_seq,                 \* last id of google_trends_stat
    gt,              \* per caller: the locals of GoogleTrendsApi.update_phrase_statistics
    post,            \* per request: the position in POST /phrases/ and its phrases
    prev,            \* the source of the cycle started last, "none" once
                     \* the outside world has changed since
    op,              \* the gateway operation applied last
    pre,             \* the table that operation was applied to
    ret,             \* what that operation returned, and whether it failed
    gen,             \* a generator chunks(sequence, 10) and what it yielded
    tr,              \* a call of GoogleTrendsApi.get_phrase_statistics
    main,            \* the batch run (main.py): its position and outcome
    req              \* the request a plot endpoint of app.py is serving

fluVars == <<influenza_stat, flu_seq, published, flu>>
yaTables == <<phrases, ph_seq, yandex_word_stat, ya_seq, last_ya_word_stat_req, req_seq>>
yaVars == <<now, today, yaTables, nodata, reports, rep_seq, sent, ya>>
gtVars == <<google_trends_stat, gt_seq, gt>>

gwVars == <<op, pre, ret>>

\* The state of the operations called on their own.
callVars == <<gen, tr, main, req>>

vars == <<mode, source, cycles, faults, prev, fluVars, yaVars, gtVars, post, gwVars,
          callVars>>

-----------------------------------------------------------------------------
(* Helpers on sequences and sets.                                          *)

Range(s) == {s[i] : i \in 1..Len(s)}

Max(S) == CHOOSE x \in S : \A y \in S : y <= x

Min2(a, b) == IF a <= b THEN a ELSE b

\* <<1, ..., n>>
UpTo(n) == [i \in 1..n |-> i]

\* The rows of a table as a list in id order (the order a sequential scan
\* of a table that is only appended to returns them in).
RowsInIdOrder(T) ==
    LET ids == {r.id : r \in T}
        top == IF ids = {} THEN 0 ELSE Max(ids)
        sorted == SelectSeq([i \in 1..top |-> i], LAMBDA i : i \in ids)
    IN  [k \in 1..Len(sorted) |-> CHOOSE r \in T : r.id = sorted[k]]

\* The first n elements of a list (SQL LIMIT n).
Limit(s, n) == SubSeq(s, 1, Min2(Len(s), n))

-----------------------------------------------------------------------------
(* Persistence gateway: influenza_stat.                                    *)

\* SELECT MAX(week_number) FROM influenza_stat WHERE year = {year}
get_max_week_number(table, year) ==
    LET ws == {r.week_number : r \in {x \in table : x.year = year}}
    IN  IF ws = {} THEN None ELSE Max(ws)

\* INSERT INTO influenza_stat (year, week_number, cases_number) VALUES ...
\* data is a list of (year, week, cases); ids follow the list order.
insert_values_into_influenza_stat_table(table, seq, data) ==
    table \cup {[id |-> seq + i, year |-> data[i][1], week_number |-> data[i][2],
                 cases_number |-> data[i][3]] : i \in 1..Len(data)}

-----------------------------------------------------------------------------
(* Persistence gateway: phrases and google_trends_stat.                    *)

\* INSERT INTO phrases (phrase) VALUES ...
insert_values_into_phrases_table(table, seq, data) ==
    table \cup {[id |-> seq + i, phrase |-> data[i]] : i \in 1..Len(data)}

\* A faulty variant of the pass below, ordering by id ASC: the oldest row
\* of a key survives.
delete_duplicates_keep_oldest(table) ==
    LET row_num(r) == Cardinality({x \in table : /\ x.phrase = r.phrase
                                                 /\ x.id <= r.id})
    IN  {r \in table : ~ (row_num(r) > 1)}

\* DELETE FROM phrases WHERE ctid IN (SELECT ctid FROM (SELECT ctid,
\*   row_number() OVER (PARTITION BY phrase ORDER BY id DESC) AS row_num
\*   FROM phrases) t WHERE t.row_num > 1)
delete_duplicates_from_phrases_table(table) ==
    LET row_num(r) == Cardinality({x \in table : /\ x.phrase = r.phrase
                                                 /\ x.id >= r.id})
    IN  {r \in table : ~ (row_num(r) > 1)}

\* INSERT INTO google_trends_stat (year, week_number, phrase, shows_percent)
\*   VALUES ...
insert_values_into_google_trends_stat_table(table, seq, data) ==
    table \cup {[id |-> seq + i, year |-> data[i][1], week_number |-> data[i][2],
                 phrase |-> data[i][3], shows_percent |-> data[i][4]] :
                    i \in 1..Len(data)}

\* A faulty variant of the pass below, with row_num >= 1: no row survives.
delete_duplicates_and_originals(table) ==
    LET row_num(r) == Cardinality({x \in table : /\ x.year = r.year
                                                 /\ x.week_number = r.week_number
                                                 /\ x.phrase = r.phrase
                                                 /\ x.id >= r.id})
    IN  {r \in table : ~ (row_num(r) >= 1)}

\* DELETE FROM google_trends_stat WHERE ctid IN (SELECT ctid FROM (SELECT
\*   ctid, row_number() OVER (PARTITION BY year, week_number, phrase
\*   ORDER BY id DESC) AS row_num FROM google_trends_stat) t
\*   WHERE t.row_num > 1)
delete_duplicates_from_google_trends_stat_table(table) ==
    LET row_num(r) == Cardinality({x \in table : /\ x.year = r.year
                                                 /\ x.week_number = r.week_number
                                                 /\ x.phrase = r.phrase
                                                 /\ x.id >= r.id})
    IN  {r \in table : ~ (row_num(r) > 1)}

-----------------------------------------------------------------------------
(* Persistence gateway: yandex_word_stat and last_ya_word_stat_req.        *)

\* INSERT INTO yandex_word_stat (year, month, phrase, shows) VALUES ...
insert_values_into_yandex_word_stat_table(table, seq, data) ==
    table \cup {[id |-> seq + i, year |-> data[i][1], month |-> data[i][2],
                 phrase |-> data[i][3], shows |-> data[i][4]] : i \in 1..Len(data)}

\* SELECT phrase FROM phrases WHERE phrase NOT IN
\*   (SELECT phrase FROM (SELECT phrase, MAX(month) max_month
\*      FROM yandex_word_stat WHERE year = {year} GROUP BY phrase) t
\*    WHERE t.max_month >= {month}) LIMIT {limit}
get_new_yandex_word_stat_phrases(registry, stat, year, month, limit) ==
    LET ofYear == {r \in stat : r.year = year}
        max_month(ph) == Max({r.month : r \in {x \in ofYear : x.phrase = ph}})
        t == {ph \in {r.phrase : r \in ofYear} : max_month(ph) >= month}
        rows == RowsInIdOrder(registry)
        all == SelectSeq([i \in 1..Len(rows) |-> rows[i].phrase],
                         LAMBDA ph : ph \notin t)
    IN  Limit(all, limit)

\* SELECT phrase FROM phrases WHERE phrase NOT IN
\*   (SELECT phrase FROM (SELECT phrase, MAX(week_number) max_w_n
\*      FROM google_trends_stat WHERE year = {year} GROUP BY phrase) t
\*    WHERE t.max_w_n >= {week_number})
get_new_google_trends_phrases(registry, stat, year, week_number) ==
    LET ofYear == {r \in stat : r.year = year}
        max_w_n(ph) == Max({r.week_number : r \in {x \in ofYear : x.phrase = ph}})
        t == {ph \in {r.phrase : r \in ofYear} : max_w_n(ph) >= week_number}
        rows == RowsInIdOrder(registry)
    IN  SelectSeq([i \in 1..Len(rows) |-> rows[i].phrase], LAMBDA ph : ph \notin t)

\* A faulty variant of the pass below, with row_num = 2: one pass removes
\* one duplicate of a key only.
delete_second_duplicate(table) ==
    LET row_num(r) == Cardinality({x \in table : /\ x.year = r.year
                                                 /\ x.month = r.month
                                                 /\ x.phrase = r.phrase
                                                 /\ x.id >= r.id})
    IN  {r \in table : ~ (row_num(r) = 2)}

\* DELETE FROM yandex_word_stat WHERE ctid IN (SELECT ctid FROM (SELECT ctid,
\*   row_number() OVER (PARTITION BY year, month, phrase ORDER BY id DESC)
\*   AS row_num FROM yandex_word_stat) t WHERE t.row_num > 1)
delete_duplicates_from_yandex_word_stat_table(table) ==
    LET row_num(r) == Cardinality({x \in table : /\ x.year = r.year
                                                 /\ x.month = r.month
                                                 /\ x.phrase = r.phrase
                                                 /\ x.id >= r.id})
    IN  {r \in table : ~ (row_num(r) > 1)}

\* SELECT request_date, phrases_number FROM last_ya_word_stat_req
\*   ORDER BY request_date DESC LIMIT 1
\* The answers the store may give: any row with the latest request_date;
\* fetchone() of no row is None, whose unpacking raises inside the try, so
\* the method returns (None, None).
get_last_req_info(table) ==
    IF table = {} THEN {<<None, None>>}
    ELSE {<<r.request_date, r.phrases_number>> :
             r \in {x \in table : \A y \in table : y.request_date <= x.request_date}}

\* INSERT INTO last_ya_word_stat_req (request_date, phrases_number) VALUES ...
insert_values_in_last_ya_word_stat_req_table(table, seq, req_date, phrases_number) ==
    table \cup {[id |-> seq + 1, request_date |-> req_date,
                 phrases_number |-> phrases_number]}

\* DELETE FROM last_ya_word_stat_req
\*   WHERE request_date < (SELECT MAX(request_date) FROM last_ya_word_stat_req)
delete_old_rows_in_last_ya_word_stat_req_table(table) ==
    {r \in table : ~ (\E y \in table : r.request_date < y.request_date)}

-----------------------------------------------------------------------------
(* BulletinAdapter: InfluenzaStatParser.update_statistics_data.            *)

\* The locals of a cycle; pages, again and snap record what the site
\* answered for each week fetched, whether the cycle repeats the previous
\* one and the row counts it started from.
FluIdle == [pc |-> "idle", last_week_number |-> None, week_numbers |-> <<>>,
            data |-> <<>>, pages |-> <<>>, again |-> FALSE, snap |-> {}]

\* What the request for the page of a week may give: a page with the
\* sentence and the rate, a page without it, or a request error.
Pages == {"rate", "nomatch", "error"}

\* get_cases_per_week, lines 78-99: the rate of the page as a float; None
\* when no sentence matches (line 94) and when the request fails (the
\* handler of lines 97-98 leaves cases_number = None).
get_cases_per_week(page) == IF page = "rate" THEN Rate ELSE None

\* A faulty variant of the batch: the first request error ends the map
\* and the weeks after it are lost.
get_statistics_data_until_error(year, week_numbers, pages) ==
    LET bad == {i \in 1..Len(week_numbers) : pages[i] = "error"}
        n == IF bad = {} THEN Len(week_numbers)
             ELSE (CHOOSE i \in bad : \A j \in bad : i <= j) - 1
    IN  [i \in 1..n |-> <<year, week_numbers[i], get_cases_per_week(pages[i])>>]

\* get_statistics_data_multithread, lines 48-55: one tuple per week, in
\* the order of week_numbers, whatever get_cases_per_week returned.
get_statistics_data_multithread(year, week_numbers, pages) ==
    [i \in 1..Len(week_numbers) |->
        <<year, week_numbers[i], get_cases_per_week(pages[i])>>]

\* Faulty variants of WeeksToFetch: the filter int(w) >= last_week_number,
\* and no filter at all.
WeeksFromCursor(last_week_number, week_numbers) ==
    IF last_week_number = None \/ last_week_number = 0
    THEN week_numbers
    ELSE SelectSeq(week_numbers, LAMBDA w : w >= last_week_number)

WeeksUnfiltered(last_week_number, week_numbers) == week_numbers

\* The list comprehension of line 34 and the branch of lines 31-36: the
\* weeks update_statistics_data hands to get_statistics_data_multithread.
WeeksToFetch(last_week_number, week_numbers) ==
    IF last_week_number = None \/ last_week_number = 0
    THEN week_numbers
    ELSE SelectSeq(week_numbers, LAMBDA w : w > last_week_number)

NoCycleRunning ==
    /\ \A q \in Procs : flu[q].pc = "idle"
    /\ \A q \in Procs : ya[q].pc = "idle"
    /\ \A q \in Procs : gt[q].pc = "idle"
    /\ \A q \in Procs : post[q].pc = "idle"

\* The number of rows of every (entity, year) of a table; key(r) is the
\* entity and year of row r.
RowCounts(table, key(_)) ==
    {<<key(r), Cardinality({x \in table : key(x) = key(r)})>> : r \in table}

FluCounts == RowCounts(influenza_stat, LAMBDA r : <<r.year>>)
YaCounts == RowCounts(yandex_word_stat, LAMBDA r : <<r.phrase, r.year>>)
GtCounts == RowCounts(google_trends_stat, LAMBDA r : <<r.phrase, r.year>>)

\* One cycle at a time in mode "seq" (a batch run, or requests served one
\* after the other); any overlap in mode "conc".  The sources share no
\* table but the registry; a behaviour runs the cycles of one of them.
MayStart(p, src) ==
    /\ source \in src
    /\ cycles < MaxCycles
    /\ mode = "seq" => (p = 1 /\ NoCycleRunning)

\* A call fails (failed = TRUE) or succeeds; failures are counted, and
\* explored in the sequential runs and in the report loop called on its own.
Fault(failed) ==
    /\ failed => (mode \in {"seq", "reports"} /\ faults < MaxFaults)
    /\ faults' = IF failed THEN faults + 1 ELSE faults

\* A request enters update_statistics_data.
FluStart(p) ==
    /\ flu[p].pc = "idle"
    /\ MayStart(p, {"flu"})
    /\ cycles' = cycles + 1
    /\ flu' = [flu EXCEPT ![p] = [FluIdle EXCEPT !.pc = "cursor",
                                 !.again = (prev = "flu"), !.snap = FluCounts]]
    /\ prev' = "flu"
    /\ UNCHANGED <<gwVars, callVars, mode, source, faults, influenza_stat, flu_seq, published, yaVars, gtVars, post>>

\* A faulty variant of the operator below: the cycle goes on after the
\* error result.
fetch_after_error(last_week_number) == "weeks"

\* Lines 27-28: the error result of the cursor read ends the cycle.
after_cursor(last_week_number) ==
    IF last_week_number = DbError THEN "idle" ELSE "weeks"

\* Lines 25-28: read the cursor; a store error ends the cycle.
FluReadCursor(p) ==
    /\ flu[p].pc = "cursor"
    /\ \E res \in {get_max_week_number(influenza_stat, FluYear), DbError} :
          /\ Fault(res = DbError)
          /\ flu' = [flu EXCEPT ![p] =
                    IF after_cursor(res) = "idle"
                    THEN [FluIdle EXCEPT !.last_week_number = res]
                    ELSE [@ EXCEPT !.pc = after_cursor(res), !.last_week_number = res]]
    /\ UNCHANGED <<gwVars, callVars, mode, source, cycles, prev, influenza_stat, flu_seq, published, yaVars, gtVars, post>>

\* Line 29: get_week_numbers; a request error yields the empty list.
FluGetWeekNumbers(p) ==
    /\ flu[p].pc = "weeks"
    /\ \E failed \in BOOLEAN :
          /\ Fault(failed)
          /\ flu' = [flu EXCEPT ![p] = [@ EXCEPT
                        !.pc = "fetch",
                        !.week_numbers = IF failed THEN <<>> ELSE UpTo(published)]]
    /\ UNCHANGED <<gwVars, callVars, mode, source, cycles, prev, influenza_stat, flu_seq, published, yaVars, gtVars, post>>

\* Lines 30-36: fetch every week to fetch through the thread pool; each
\* page yields a rate or None (no sentence, or a request error).
FluFetch(p) ==
    /\ flu[p].pc = "fetch"
    /\ LET todo == WeeksToFetch(flu[p].last_week_number, flu[p].week_numbers)
       IN  \E pages \in [1..Len(todo) -> Pages] :
              flu' = [flu EXCEPT ![p] = [@ EXCEPT
                         !.pc = "write",
                         !.pages = pages,
                         !.data = get_statistics_data_multithread(FluYear, todo, pages)]]
    /\ UNCHANGED <<gwVars, callVars, mode, source, cycles, faults, prev, influenza_stat, flu_seq, published, yaVars, gtVars, post>>

\* Lines 37-38: write_data_into_db when data is not empty; the insert may
\* fail in the store, which is printed and otherwise ignored.
FluWrite(p) ==
    /\ flu[p].pc = "write"
    /\ \E failed \in BOOLEAN :
          /\ failed => flu[p].data # <<>>
          /\ Fault(failed)
          /\ IF flu[p].data # <<>> /\ ~ failed
             THEN /\ influenza_stat' = insert_values_into_influenza_stat_table(
                                           influenza_stat, flu_seq, flu[p].data)
                  /\ flu_seq' = flu_seq + Len(flu[p].data)
             ELSE UNCHANGED <<influenza_stat, flu_seq>>
    /\ flu' = [flu EXCEPT ![p] = FluIdle]
    /\ UNCHANGED <<gwVars, callVars, mode, source, cycles, prev, published, yaVars, gtVars, post>>

\* The institute publishes the bulletin of the next week.
Publish ==
    /\ LET c == get_max_week_number(influenza_stat, FluYear)
       IN  published < (IF c = None THEN 0 ELSE c) + MaxNew
    /\ source = "flu"
    /\ mode = "seq" => NoCycleRunning
    /\ published' = published + 1
    /\ prev' = "none"
    /\ UNCHANGED <<gwVars, callVars, mode, source, cycles, faults, influenza_stat, flu_seq, flu, yaVars, gtVars, post>>

-----------------------------------------------------------------------------
(* AdPlatformAdapter: WordStatApiClient.update_phrase_statistics and       *)
(* get_phrase_statistics.                                                  *)

\* datetime.fromisoformat(date_string).  The dates of the model are the
\* datetime objects the driver builds from a TIMESTAMP column (naturals,
\* in hours); fromisoformat accepts a str only and raises TypeError.
fromisoformat(date_string) ==
    IF date_string \in Nat THEN TypeError ELSE date_string

\* Lines 45-50 and 167-169: the year and month of the previous month.
PrevMonth(d) ==
    IF d.month - 1 < 1 THEN [year |-> d.year - 1, month |-> 12]
    ELSE [year |-> d.year, month |-> d.month - 1]

\* A faulty variant of chunks: the slice runs one element too far.
chunks_overlapping(sequence, n, i) ==
    SubSeq(sequence, i + 1, Min2(i + n + 1, Len(sequence)))

\* chunks(sequence, n): sequence[i:i + n] for the offset i.
chunks(sequence, n, i) == SubSeq(sequence, i + 1, Min2(i + n, Len(sequence)))

\* The phrases with no row of the previous month, whatever the limit.
Pending == get_new_yandex_word_stat_phrases(phrases, yandex_word_stat,
               PrevMonth(today).year, PrevMonth(today).month, Cardinality(phrases))

\* The latest QuotaState row, None when the table is empty.
StoredQuota ==
    LET r == CHOOSE x \in get_last_req_info(last_ya_word_stat_req) : TRUE
    IN  [date |-> r[1], num |-> r[2]]

\* The locals of a cycle; q, pend0, submitted, nreq, noid, polls, timedout,
\* fetched, ids, again and snap record what the cycle found and did (noid:
\* a request returned no report id), and raised the exception that ended
\* it, for the properties below.
YaIdle == [pc |-> "idle", limit |-> DailyLimit, phrases_number |-> 0,
           phrases |-> <<>>, i |-> 0, report_id |-> None, timer |-> 0,
           ready |-> FALSE, polls |-> 0, report |-> <<>>, noid |-> FALSE,
           req_date |-> None,
           q |-> [date |-> None, num |-> None], pend0 |-> 0, submitted |-> 0,
           nreq |-> 0, timedout |-> FALSE, fetched |-> {}, ids |-> {},
           again |-> FALSE, snap |-> {}, raised |-> "none"]

\* Lines 36-44, given the parsed date: the limit and the base of the
\* counter, or skip.
QuotaCheck(last_req_date, last_req_phrases_number, t) ==
    IF t - last_req_date < Day
    THEN IF last_req_phrases_number # None
         THEN IF DailyLimit - last_req_phrases_number < 1
              THEN [skip |-> TRUE, limit |-> DailyLimit - last_req_phrases_number,
                    phrases_number |-> 0]
              ELSE [skip |-> FALSE, limit |-> DailyLimit - last_req_phrases_number,
                    phrases_number |-> last_req_phrases_number]
         ELSE [skip |-> TRUE, limit |-> DailyLimit, phrases_number |-> 0]
    ELSE [skip |-> FALSE, limit |-> DailyLimit, phrases_number |-> 0]

\* A caller enters update_phrase_statistics.
YaStart(p) ==
    /\ ya[p].pc = "idle"
    /\ MayStart(p, {"ya"})
    /\ cycles' = cycles + 1
    /\ ya' = [ya EXCEPT ![p] = [YaIdle EXCEPT !.pc = "quota", !.q = StoredQuota,
                                              !.pend0 = Len(Pending),
                                              !.again = (prev = "ya"),
                                              !.snap = YaCounts]]
    /\ prev' = "ya"
    /\ UNCHANGED <<gwVars, callVars, mode, source, faults, fluVars, now, today, yaTables, nodata, reports,
                   rep_seq, sent, gtVars, post>>

\* Lines 30-44: read QuotaState (a store error leaves (None, None)), parse
\* the date and derive the limit.  The TypeError of line 35 is raised
\* outside every handler and ends the cycle.
YaReadQuota(p) ==
    /\ ya[p].pc = "quota"
    /\ \E failed \in BOOLEAN, row \in get_last_req_info(last_ya_word_stat_req) :
          LET res == IF failed THEN <<None, None>> ELSE row
              d == fromisoformat(res[1])
              c == QuotaCheck(d, res[2], now)
          IN  /\ Fault(failed)
              /\ ya' = [ya EXCEPT ![p] =
                    IF res[1] = None
                    THEN [@ EXCEPT !.pc = "select"]
                    ELSE IF d = TypeError
                    THEN [@ EXCEPT !.pc = "idle", !.raised = "TypeError"]
                    ELSE IF c.skip THEN [@ EXCEPT !.pc = "idle"]
                    ELSE [@ EXCEPT !.pc = "select", !.limit = c.limit,
                                   !.phrases_number = c.phrases_number]]
    /\ UNCHANGED <<gwVars, callVars, mode, source, cycles, prev, gtVars, post, fluVars, now, today, yaTables, nodata, reports,
                   rep_seq, sent>>

\* Lines 45-54: the phrases to ask for; a store error leaves the empty
\* list.  With no phrase the chunk loop is empty and the dedup follows.
YaSelect(p) ==
    /\ ya[p].pc = "select"
    /\ \E failed \in BOOLEAN :
          LET m == PrevMonth(today)
              ps == IF failed THEN <<>>
                    ELSE get_new_yandex_word_stat_phrases(phrases, yandex_word_stat,
                             m.year, m.month, ya[p].limit)
          IN  /\ Fault(failed)
              /\ ya' = [ya EXCEPT ![p] = [@ EXCEPT
                          !.phrases = ps,
                          !.pc = IF ps = <<>> THEN "dedup" ELSE "request"]]
    /\ UNCHANGED <<gwVars, callVars, mode, source, cycles, prev, gtVars, post, fluVars, now, today, yaTables, nodata, reports,
                   rep_seq, sent>>

\* A faulty variant of the operator below: the loop goes on without an id.
poll_without_id(report_id) == "poll"

\* Lines 73-74: without a report id get_phrase_statistics returns.
after_request(report_id) == IF report_id = None THEN "write" ELSE "poll"

\* Lines 72-78 and request_report: ask for the report of the next chunk.
\* "ok": the provider accepts and returns the report id; "urlerror": the
\* request fails, report_id stays None and get_phrase_statistics returns;
\* "error": the reply carries no "data" (the provider holds MaxReports
\* reports, or refuses), res["data"] raises and the cycle ends.
YaRequest(p) ==
    /\ ya[p].pc = "request"
    /\ \E out \in {"ok", "urlerror", "error"} :
          LET ten_phrases == chunks(ya[p].phrases, ChunkSize, ya[p].i)
          IN  /\ out = "ok" => Cardinality(reports) < MaxReports
              /\ Fault(out # "ok")
              /\ IF out = "ok"
                 THEN /\ rep_seq' = rep_seq + 1
                      /\ reports' = reports \cup {rep_seq + 1}
                      /\ sent' = Append(sent, <<now, Len(ten_phrases)>>)
                      /\ ya' = [ya EXCEPT ![p] = [@ EXCEPT
                                  !.pc = after_request(rep_seq + 1),
                                  !.report_id = rep_seq + 1,
                                  !.timer = 0, !.ready = FALSE, !.polls = 0,
                                  !.nreq = @ + 1,
                                  !.submitted = @ + Len(ten_phrases)]]
                 ELSE /\ UNCHANGED <<rep_seq, reports, sent>>
                      /\ ya' = [ya EXCEPT ![p] = [@ EXCEPT
                                  !.pc = IF out = "urlerror" THEN after_request(None)
                                         ELSE "idle",
                                  !.raised = IF out = "error" THEN "KeyError" ELSE "none",
                                  !.report_id = None,
                                  !.noid = TRUE,
                                  !.nreq = @ + 1]]
    /\ UNCHANGED <<gwVars, callVars, mode, source, cycles, prev, gtVars, post, fluVars, now, today, yaTables, nodata>>

\* A faulty variant of the operator below: the loop ignores the answer
\* until the time is up.
poll_until_timeout(timer, ready) ==
    IF timer < Timeout THEN "poll" ELSE IF ready THEN "fetch" ELSE "write"

\* Lines 79 and 83-86: where get_phrase_statistics goes after a status
\* query: out of the loop to the report when it is ready, round the loop
\* while the time is not up, and out of the function otherwise.
after_query(timer, ready) ==
    IF ready THEN "fetch" ELSE IF timer < Timeout THEN "poll" ELSE "write"

\* Lines 79-86 and _report_ready: one turn of the polling loop, the sleep
\* and then the status query.  "done": the report is listed as Done;
\* "pending": it has another status or is not listed, and "urlerror": the
\* request fails, which both read as not ready; "error": the reply carries
\* no "data", res["data"] raises and the cycle ends.
YaPoll(p) ==
    /\ ya[p].pc = "poll"
    /\ ya[p].timer < Timeout
    /\ \E out \in {"done", "pending", "urlerror", "error"} :
          LET timer == ya[p].timer + TimeStep
              ready == (out = "done")
              next == IF out = "error" THEN "idle" ELSE after_query(timer, ready)
          IN  /\ Fault(out \in {"urlerror", "error"})
              /\ ya' = [ya EXCEPT ![p] = [@ EXCEPT
                          !.timer = timer,
                          !.polls = @ + 1,
                          !.ready = ready,
                          !.pc = next,
                          !.raised = IF out = "error" THEN "KeyError" ELSE "none",
                          !.timedout = (next = "write")]]
    /\ UNCHANGED <<gwVars, callVars, mode, source, cycles, prev, gtVars, post, fluVars, now, today, yaTables, nodata,
                   reports, rep_seq, sent>>

\* The provider's report of a chunk: one entry (phrase, shows) per phrase
\* it has data for.
ReportOf(ten_phrases) ==
    LET known == SelectSeq(ten_phrases, LAMBDA ph : ph \notin nodata)
    IN  [k \in 1..Len(known) |-> <<known[k], Shows>>]

\* Lines 166-173: the rows add_phrase_statistics_to_db builds from a report.
ReportData(report, d) ==
    [k \in 1..Len(report) |->
        <<PrevMonth(d).year, PrevMonth(d).month, report[k][1], report[k][2]>>]

\* Lines 87-89 and get_report: fetch the ready report.  A request error
\* (report None) and an empty report both make get_phrase_statistics
\* return; a reply without "data" raises.
YaGetReport(p) ==
    /\ ya[p].pc = "fetch"
    /\ \E out \in {"ok", "urlerror", "error"} :
          LET report == IF out = "ok"
                        THEN ReportOf(chunks(ya[p].phrases, ChunkSize, ya[p].i))
                        ELSE <<>>
          IN  /\ Fault(out # "ok")
              /\ ya' = [ya EXCEPT ![p] = [@ EXCEPT
                          !.report = report,
                          !.pc = IF out = "error" THEN "idle"
                                 ELSE IF report = <<>> THEN "write" ELSE "add",
                          !.raised = IF out = "error" THEN "KeyError" ELSE "none",
                          !.fetched = @ \cup Range(ReportData(report, today))]]
    /\ UNCHANGED <<gwVars, callVars, mode, source, cycles, prev, gtVars, post, fluVars, now, today, yaTables, nodata, reports,
                   rep_seq, sent>>

\* Line 90 and add_phrase_statistics_to_db: insert the rows of the report;
\* a store error is printed and the loop goes on.
YaAdd(p) ==
    /\ ya[p].pc = "add"
    /\ \E failed \in BOOLEAN :
          LET data == ReportData(ya[p].report, today)
          IN  /\ Fault(failed)
              /\ IF failed
                 THEN /\ UNCHANGED <<yandex_word_stat, ya_seq>>
                      /\ ya' = [ya EXCEPT ![p] = [@ EXCEPT !.pc = "delete"]]
                 ELSE /\ yandex_word_stat' = insert_values_into_yandex_word_stat_table(
                                                 yandex_word_stat, ya_seq, data)
                      /\ ya_seq' = ya_seq + Len(data)
                      /\ ya' = [ya EXCEPT ![p] = [@ EXCEPT
                                  !.pc = "delete",
                                  !.ids = @ \cup {ya_seq + k : k \in 1..Len(data)}]]
    /\ UNCHANGED <<gwVars, callVars, mode, source, cycles, prev, gtVars, post, fluVars, now, today, phrases, ph_seq,
                   last_ya_word_stat_req, req_seq, nodata, reports, rep_seq, sent>>

\* Line 91 and delete_report, then the next turn of the chunk loop.  A
\* request error leaves the report at the provider; a reply without "data"
\* raises.
YaDelete(p) ==
    /\ ya[p].pc = "delete"
    /\ \E out \in {"ok", "urlerror", "error"} :
          LET i == ya[p].i + ChunkSize
          IN  /\ Fault(out # "ok")
              /\ reports' = IF out = "ok" THEN reports \ {ya[p].report_id} ELSE reports
              /\ ya' = [ya EXCEPT ![p] = [@ EXCEPT
                          !.i = i,
                          !.pc = IF out = "error" THEN "idle"
                                 ELSE IF i < Len(ya[p].phrases) THEN "request"
                                 ELSE "dedup",
                          !.raised = IF out = "error" THEN "KeyError" ELSE "none"]]
    /\ UNCHANGED <<gwVars, callVars, mode, source, cycles, prev, gtVars, post, fluVars, now, today, yaTables, nodata, rep_seq, sent>>

\* Lines 92-97: the dedup pass that ends a chunk loop that ran through.
YaDedup(p) ==
    /\ ya[p].pc = "dedup"
    /\ \E failed \in BOOLEAN :
          /\ Fault(failed)
          /\ yandex_word_stat' =
                IF failed THEN yandex_word_stat
                ELSE delete_duplicates_from_yandex_word_stat_table(yandex_word_stat)
    /\ ya' = [ya EXCEPT ![p] = [@ EXCEPT !.pc = "write"]]
    /\ UNCHANGED <<gwVars, callVars, mode, source, cycles, prev, gtVars, post, fluVars, now, today, phrases, ph_seq, ya_seq,
                   last_ya_word_stat_req, req_seq, nodata, reports, rep_seq, sent>>

\* Lines 56-60: record the request; the clock moves one tick per reading.
YaWrite(p) ==
    /\ ya[p].pc = "write"
    /\ now' = now + 1
    /\ \E failed \in BOOLEAN :
          LET phrases_number == ya[p].phrases_number + Len(ya[p].phrases)
          IN  /\ Fault(failed)
              /\ ya' = [ya EXCEPT ![p] = [@ EXCEPT !.pc = "prune",
                                            !.req_date = now',
                                            !.phrases_number = phrases_number]]
              /\ IF failed
                 THEN UNCHANGED <<last_ya_word_stat_req, req_seq>>
                 ELSE /\ last_ya_word_stat_req' =
                            insert_values_in_last_ya_word_stat_req_table(
                                last_ya_word_stat_req, req_seq, now', phrases_number)
                      /\ req_seq' = req_seq + 1
    /\ UNCHANGED <<gwVars, callVars, mode, source, cycles, prev, gtVars, post, fluVars, today, phrases, ph_seq, yandex_word_stat,
                   ya_seq, nodata, reports, rep_seq, sent>>

\* Line 61: drop the older QuotaState rows; the cycle ends.
YaPrune(p) ==
    /\ ya[p].pc = "prune"
    /\ \E failed \in BOOLEAN :
          /\ Fault(failed)
          /\ last_ya_word_stat_req' =
                IF failed THEN last_ya_word_stat_req
                ELSE delete_old_rows_in_last_ya_word_stat_req_table(last_ya_word_stat_req)
    /\ ya' = [ya EXCEPT ![p] = [@ EXCEPT !.pc = "idle"]]
    /\ UNCHANGED <<gwVars, callVars, mode, source, cycles, prev, gtVars, post, fluVars, now, today, phrases, ph_seq,
                   yandex_word_stat, ya_seq, req_seq, nodata, reports, rep_seq, sent>>

-----------------------------------------------------------------------------
(* TrendsAdapter: GoogleTrendsApi.update_phrase_statistics.                *)

\* The default of the parameter limit (line 28).
GtLimit == 1000

GtIdle == [pc |-> "idle", year |-> None, week |-> None, phrases |-> <<>>,
           again |-> FALSE, snap |-> {}]

\* A caller enters update_phrase_statistics: lines 32-38, the year and the
\* number of the previous week.
GtStart(p) ==
    /\ gt[p].pc = "idle"
    /\ MayStart(p, {"gt"})
    /\ cycles' = cycles + 1
    /\ LET week == today.week - 1
       IN  gt' = [gt EXCEPT ![p] = [GtIdle EXCEPT
                    !.pc = "select",
                    !.year = IF week < 1 THEN today.year - 1 ELSE today.year,
                    !.week = IF week < 1 THEN LastWeek ELSE week,
                    !.again = (prev = "gt"),
                    !.snap = GtCounts]]
    /\ prev' = "gt"
    /\ UNCHANGED <<gwVars, callVars, mode, source, faults, fluVars, yaVars, google_trends_stat, gt_seq, post>>

\* Lines 39-43.  db.get_new_google_trends_phrases(year, week, limit) passes
\* three arguments to a method that takes (year, week_number): the call
\* raises TypeError inside the with block, DB.__exit__ returns True and
\* swallows it, and phrases stays [].  The loop of lines 42-43 calls
\* get_phrase_statistics for each element of phrases: for none.
GtSelect(p) ==
    /\ gt[p].pc = "select"
    /\ LET args == <<gt[p].year, gt[p].week, GtLimit>>
           res == IF Len(args) # 2 THEN TypeError
                  ELSE get_new_google_trends_phrases(phrases, google_trends_stat,
                                                     args[1], args[2])
       IN  gt' = [gt EXCEPT ![p] = [@ EXCEPT
                    !.pc = "dedup",
                    !.phrases = IF res = TypeError THEN <<>> ELSE res]]
    /\ UNCHANGED <<gwVars, callVars, mode, source, cycles, faults, prev, fluVars, yaVars,
                   google_trends_stat, gt_seq, post>>

\* Lines 44-46: the dedup pass that ends the cycle.
GtDedup(p) ==
    /\ gt[p].pc = "dedup"
    /\ \E failed \in BOOLEAN :
          /\ Fault(failed)
          /\ google_trends_stat' =
                IF failed THEN google_trends_stat
                ELSE delete_duplicates_from_google_trends_stat_table(google_trends_stat)
    /\ gt' = [gt EXCEPT ![p] = GtIdle]
    /\ UNCHANGED <<gwVars, callVars, mode, source, cycles, prev, fluVars, yaVars, gt_seq, post>>

-----------------------------------------------------------------------------
(* Phrase registry: POST /phrases/ (app.py get_phrases).                   *)

\* A phrase that is not registered when the model starts.
NewPhrase == ManyPhrases + QuotaPhrases + 1

\* The lists of phrases the requests post.
PostData == {<<1>>, <<NewPhrase>>, <<NewPhrase, NewPhrase>>}

\* A request: its position, and the phrases of its JSON body (line 25).
PostIdle == [pc |-> "idle", data |-> <<>>]

\* Lines 23-29: insert the posted phrases.
PostInsert(p) ==
    /\ post[p].pc = "idle"
    /\ MayStart(p, {"ya", "gt"})
    /\ cycles' = cycles + 1
    /\ prev' = "none"
    /\ \E data \in PostData, failed \in BOOLEAN :
          /\ Fault(failed)
          /\ IF failed THEN UNCHANGED <<phrases, ph_seq>>
             ELSE /\ phrases' = insert_values_into_phrases_table(phrases, ph_seq, data)
                  /\ ph_seq' = ph_seq + Len(data)
          /\ post' = [post EXCEPT ![p] = [pc |-> "dedup", data |-> data]]
    /\ UNCHANGED <<gwVars, callVars, mode, source, fluVars, now, today, yandex_word_stat, ya_seq,
                   last_ya_word_stat_req, req_seq, nodata, reports, rep_seq, sent,
                   ya, gtVars>>

\* Line 30: remove the duplicates the insert may have made.
PostDedup(p) ==
    /\ post[p].pc = "dedup"
    /\ \E failed \in BOOLEAN :
          /\ Fault(failed)
          /\ phrases' = IF failed THEN phrases
                        ELSE delete_duplicates_from_phrases_table(phrases)
    /\ post' = [post EXCEPT ![p].pc = "idle"]
    /\ UNCHANGED <<gwVars, callVars, mode, source, cycles, prev, fluVars, now, today, ph_seq,
                   yandex_word_stat, ya_seq, last_ya_word_stat_req, req_seq, nodata,
                   reports, rep_seq, sent, ya, gtVars>>

-----------------------------------------------------------------------------
(* The gateway operations on their own: any rows inserted in any order,    *)
(* and the three de-duplication passes.                                    *)

\* The result of an operation that returns nothing.
NoRet == [failed |-> FALSE, value |-> None]

GwPhrases == {1, 2}
GwYears == {2021, 2022}
GwPeriods == {1, 2}

\* SELECT phrase FROM phrases
get_phrases(table) ==
    LET rows == RowsInIdOrder(table)
    IN  [i \in 1..Len(rows) |-> rows[i].phrase]

\* DB.get_phrases, lines 51-63: the list of the registered phrases; a
\* store error is printed and the list built so far, [], is returned.
GwGetPhrases ==
    /\ google_trends_stat = {} /\ yandex_word_stat = {}
    /\ \E failed \in BOOLEAN :
          ret' = [failed |-> failed,
                  value |-> IF failed THEN <<>> ELSE get_phrases(phrases)]
    /\ op' = "get_phrases"
    /\ pre' = phrases
    /\ UNCHANGED <<callVars, mode, source, cycles, faults, prev, fluVars, yaVars,
                   gtVars, post>>

GwInsertPhrases ==
    /\ ph_seq < MaxRows
    /\ google_trends_stat = {} /\ yandex_word_stat = {}
    /\ \E ph \in GwPhrases :
          phrases' = insert_values_into_phrases_table(phrases, ph_seq, <<ph>>)
    /\ ph_seq' = ph_seq + 1
    /\ op' = "insert"
    /\ pre' = phrases
    /\ ret' = NoRet
    /\ UNCHANGED <<callVars, mode, source, cycles, faults, prev, fluVars, now, today, yandex_word_stat,
                   ya_seq, last_ya_word_stat_req, req_seq, nodata, reports, rep_seq,
                   sent, ya, gtVars, post>>

GwInsertTrends ==
    /\ gt_seq < MaxRows
    /\ phrases = {} /\ yandex_word_stat = {}
    /\ \E y \in GwYears, w \in GwPeriods, ph \in GwPhrases :
          google_trends_stat' = insert_values_into_google_trends_stat_table(
                                    google_trends_stat, gt_seq, <<<<y, w, ph, Shows>>>>)
    /\ gt_seq' = gt_seq + 1
    /\ op' = "insert"
    /\ pre' = google_trends_stat
    /\ ret' = NoRet
    /\ UNCHANGED <<callVars, mode, source, cycles, faults, prev, fluVars, yaVars, gt, post>>

GwInsertYandex ==
    /\ ya_seq < MaxRows
    /\ phrases = {} /\ google_trends_stat = {}
    /\ \E y \in GwYears, m \in GwPeriods, ph \in GwPhrases :
          yandex_word_stat' = insert_values_into_yandex_word_stat_table(
                                  yandex_word_stat, ya_seq, <<<<y, m, ph, Shows>>>>)
    /\ ya_seq' = ya_seq + 1
    /\ op' = "insert"
    /\ pre' = yandex_word_stat
    /\ ret' = NoRet
    /\ UNCHANGED <<callVars, mode, source, cycles, faults, prev, fluVars, now, today, phrases, ph_seq,
                   last_ya_word_stat_req, req_seq, nodata, reports, rep_seq, sent,
                   ya, gtVars, post>>

GwDedupPhrases ==
    /\ phrases # {}
    /\ phrases' = delete_duplicates_from_phrases_table(phrases)
    /\ op' = "delete_duplicates_from_phrases_table"
    /\ pre' = phrases
    /\ ret' = NoRet
    /\ UNCHANGED <<callVars, mode, source, cycles, faults, prev, fluVars, now, today, ph_seq,
                   yandex_word_stat, ya_seq, last_ya_word_stat_req, req_seq, nodata,
                   reports, rep_seq, sent, ya, gtVars, post>>

GwDedupTrends ==
    /\ google_trends_stat # {}
    /\ google_trends_stat' = delete_duplicates_from_google_trends_stat_table(google_trends_stat)
    /\ op' = "delete_duplicates_from_google_trends_stat_table"
    /\ pre' = google_trends_stat
    /\ ret' = NoRet
    /\ UNCHANGED <<callVars, mode, source, cycles, faults, prev, fluVars, yaVars, gt_seq, gt, post>>

GwDedupYandex ==
    /\ yandex_word_stat # {}
    /\ yandex_word_stat' = delete_duplicates_from_yandex_word_stat_table(yandex_word_stat)
    /\ op' = "delete_duplicates_from_yandex_word_stat_table"
    /\ pre' = yandex_word_stat
    /\ ret' = NoRet
    /\ UNCHANGED <<callVars, mode, source, cycles, faults, prev, fluVars, now, today, phrases, ph_seq,
                   ya_seq, last_ya_word_stat_req, req_seq, nodata, reports, rep_seq,
                   sent, ya, gtVars, post>>

-----------------------------------------------------------------------------
(* Operations called on their own, outside a cycle.                        *)

\* The longest list handed to chunks and to get_phrase_statistics.
MaxLen == 25

\* The lengths of the lists get_phrase_statistics is called with.
CallLens == {0, 1, ChunkSize, ChunkSize + 1, MaxLen}

GenIdle == [sequence |-> <<>>, i |-> 0, yielded |-> <<>>]

\* chunks(sequence, 10), lines 225-226: one turn of the generator, for i in
\* range(0, len(sequence), n).
ChunksYield ==
    /\ gen.i < Len(gen.sequence)
    /\ gen' = [gen EXCEPT !.yielded = Append(@, chunks(gen.sequence, ChunkSize, gen.i)),
                          !.i = @ + ChunkSize]
    /\ UNCHANGED <<gwVars, tr, main, req, mode, source, cycles, faults, prev, fluVars, yaVars, gtVars,
                   post>>

\* WordStatApiClient.get_phrase_statistics(phrases) called with a list of
\* its caller; the call has returned when pc is "write", the line after
\* the call in update_phrase_statistics.
YaCall(p) ==
    /\ p = 1
    /\ source = "ya"
    /\ ya[p].pc = "idle"
    /\ \E n \in CallLens :
          ya' = [ya EXCEPT ![p] = [YaIdle EXCEPT
                    !.phrases = UpTo(n),
                    !.pc = IF n = 0 THEN "dedup" ELSE "request"]]
    /\ UNCHANGED <<gwVars, callVars, mode, source, cycles, faults, prev, fluVars, now,
                   today, yaTables, nodata, reports, rep_seq, sent, gtVars, post>>

\* The longest series a provider reply carries in the model.
MaxBuckets == 3

\* The ISO weeks of n consecutive weekly buckets, the first in week first
\* of a year of last weeks.
IsoWeeks(first, last, n) == [k \in 1..n |-> ((first + k - 2) % last) + 1]

\* The replies of interest_over_time() after reset_index(): a row per
\* bucket, date being the ISO week of the bucket (lines 102-103) and shows
\* the column of the phrase.  The first bucket of a year's series starts
\* in the last days of the year before or in the first week.
Series ==
    {[k \in 1..n |-> [date |-> IsoWeeks(first, last, n)[k], shows |-> Shows]] :
        first \in {1, 51, 52}, last \in {52}, n \in 1..MaxBuckets}
    \cup {[k \in 1..n |-> [date |-> IsoWeeks(53, 53, n)[k], shows |-> Shows]] :
        n \in 1..MaxBuckets}

\* A faulty variant of the renumbering: week 52 becomes 0 and no week is
\* shifted.
renumber_without_shift(date) ==
    IF date[1] = LastWeek
    THEN [k \in 1..Len(date) |-> IF k = 1 THEN 0 ELSE date[k]]
    ELSE date

\* Lines 105-107, on the column df['date']: when the first week is 52 it
\* is set to 0 and then every week of the column is increased by one.
renumber(date) ==
    IF date[1] = LastWeek
    THEN [k \in 1..Len(date) |-> (IF k = 1 THEN 0 ELSE date[k]) + 1]
    ELSE date

\* Lines 108-111: the rows save_data_to_db builds from df for the year
\* of date_start.
SaveData(df, year, phrase) ==
    LET date == renumber([k \in 1..Len(df) |-> df[k].date])
    IN  [k \in 1..Len(df) |-> <<year, date[k], phrase, df[k].shows>>]

\* The locals of get_phrase_statistics; queries and last record the
\* number of queries made and how the last one ended, data, first_id and
\* raised the batch handed to the store, the id before its first row and
\* the exception that left the call.
TrIdle == [pc |-> "idle", phrase |-> None, timer |-> 0, df |-> <<>>,
           queries |-> 0, last |-> "none",
           data |-> <<>>, first_id |-> None, raised |-> "none"]

\* A faulty variant of the condition below: one more turn at the timeout.
while_up_to_timeout(timer) == timer <= Timeout

\* Line 83: the condition of the retry loop.
while_timer_lt_timeout(timer) == timer < Timeout

\* A caller calls get_phrase_statistics(phrase).
TrCall ==
    /\ source = "gt"
    /\ tr.pc \in {"idle", "done"}
    /\ cycles < MaxCycles
    /\ cycles' = cycles + 1
    /\ \E phrase \in GwPhrases :
          tr' = [TrIdle EXCEPT !.pc = "fetch", !.phrase = phrase]
    /\ UNCHANGED <<gwVars, gen, main, req, mode, source, faults, prev, fluVars, yaVars,
                   gtVars, post>>

\* _get_phrase_statistics_df, lines 83-97: one turn of the retry loop.  A
\* reply, empty or not, is returned; ResponseError is caught and the loop
\* sleeps and tries again until the timer reaches the timeout, then the
\* empty frame is returned; any other exception leaves the call.  Lines
\* 71-73: an empty frame ends get_phrase_statistics.
TrFetch ==
    /\ tr.pc = "fetch"
    /\ while_timer_lt_timeout(tr.timer)
    /\ \/ \E df \in Series :
             tr' = [tr EXCEPT !.df = df, !.pc = "save", !.queries = @ + 1,
                              !.last = "data"]
       \/ tr' = [tr EXCEPT !.pc = "done", !.queries = @ + 1, !.last = "empty"]
       \/ LET timer == tr.timer + TimeStep
          IN  tr' = [tr EXCEPT !.timer = timer, !.queries = @ + 1,
                               !.last = "ResponseError",
                               !.pc = IF while_timer_lt_timeout(timer) THEN "fetch"
                                      ELSE "done"]
       \/ tr' = [tr EXCEPT !.pc = "done", !.queries = @ + 1, !.last = "Exception",
                            !.raised = "Exception"]
    /\ UNCHANGED <<gwVars, gen, main, req, mode, source, cycles, faults, prev, fluVars, yaVars,
                   gtVars, post>>

\* save_data_to_db, lines 99-117: renumber the weeks, build the rows and
\* insert them; a store error is printed and nothing is stored.
TrSave ==
    /\ tr.pc = "save"
    /\ \E failed \in BOOLEAN :
          LET data == SaveData(tr.df, today.year, tr.phrase)
          IN  /\ tr' = [tr EXCEPT !.pc = "done", !.data = data,
                                  !.first_id = IF failed THEN None ELSE gt_seq]
              /\ IF failed
                 THEN UNCHANGED <<google_trends_stat, gt_seq>>
                 ELSE /\ google_trends_stat' =
                            insert_values_into_google_trends_stat_table(
                                google_trends_stat, gt_seq, data)
                      /\ gt_seq' = gt_seq + Len(data)
    /\ UNCHANGED <<gwVars, gen, main, req, mode, source, cycles, faults, prev, fluVars, yaVars,
                   gt, post>>

-----------------------------------------------------------------------------
(* The batch run: main.py, lines 35-42.                                    *)

\* The position of the batch run, the cycles that have run and the
\* exception that ended it.
MainIdle == [pc |-> "idle", ran |-> {}, raised |-> "none"]

\* The constructor of WordStatApiClient takes a token
\* (yandex_wordstat_api.py, line 17); main.py line 41 passes none.
WordStatApiClient(args) ==
    IF Len(args) # 1 THEN TypeError ELSE [token |-> args[1]]

\* get_phrases_from_csv, lines 9-31: read the file and insert its phrases.
\* open() and the row indexing raise outside every handler; a store error
\* is printed and the pass of line 32 follows.
MainImport ==
    /\ main.pc = "csv"
    /\ \/ /\ main' = [main EXCEPT !.pc = "end", !.raised = "OSError"]
          /\ UNCHANGED <<phrases, ph_seq>>
       \/ \E data \in PostData, failed \in BOOLEAN :
             /\ main' = [main EXCEPT !.pc = "csv_dedup"]
             /\ IF failed THEN UNCHANGED <<phrases, ph_seq>>
                ELSE /\ phrases' = insert_values_into_phrases_table(phrases, ph_seq, data)
                     /\ ph_seq' = ph_seq + Len(data)
    /\ UNCHANGED <<gwVars, gen, tr, req, mode, source, cycles, faults, prev, fluVars, now,
                   today, yandex_word_stat, ya_seq, last_ya_word_stat_req, req_seq,
                   nodata, reports, rep_seq, sent, ya, gtVars, post>>

\* get_phrases_from_csv, line 32: the dedup pass of the registry.
MainImportDedup ==
    /\ main.pc = "csv_dedup"
    /\ \E failed \in BOOLEAN :
          phrases' = IF failed THEN phrases
                     ELSE delete_duplicates_from_phrases_table(phrases)
    /\ main' = [main EXCEPT !.pc = "gt"]
    /\ UNCHANGED <<gwVars, gen, tr, req, mode, source, cycles, faults, prev, fluVars, now,
                   today, ph_seq, yandex_word_stat, ya_seq, last_ya_word_stat_req,
                   req_seq, nodata, reports, rep_seq, sent, ya, gtVars, post>>

\* Lines 38-39: the Trends cycle of the batch run starts.
MainTrends ==
    /\ main.pc = "gt"
    /\ cycles = 0
    /\ GtStart(1)

\* Lines 41-42, once the Trends cycle has returned: WordStatApiClient() is
\* built without its token, which raises TypeError and ends the run before
\* update_phrase_statistics is called.
MainClient ==
    /\ main.pc = "gt"
    /\ cycles = 1
    /\ gt[1].pc = "idle"
    /\ LET word_stat_client == WordStatApiClient(<<>>)
       IN  main' = IF word_stat_client = TypeError
                   THEN [main EXCEPT !.pc = "end", !.ran = @ \cup {"gt"},
                                     !.raised = "TypeError"]
                   ELSE [main EXCEPT !.pc = "ya", !.ran = @ \cup {"gt"}]
    /\ UNCHANGED <<gwVars, gen, tr, req, mode, source, cycles, faults, prev, fluVars, yaVars,
                   gtVars, post>>

-----------------------------------------------------------------------------
(* The plot endpoints of app.py, lines 37-198.                             *)

\* The routes and the source each reads.
Endpoints ==
    {[route |-> "/influenza-stat/week/plot/", source |-> "flu"],
     [route |-> "/influenza-stat/month/plot/", source |-> "flu"],
     [route |-> "/yandex-wordstat/plot/", source |-> "ya"],
     [route |-> "/googletrends-stat/week/plot/", source |-> "gt"],
     [route |-> "/googletrends-stat/month/plot/", source |-> "gt"]}

\* The request being served: its route and phrase, the number of cycles
\* started before it, whether a cycle ran for it and the status returned.
ReqIdle == [pc |-> "idle", route |-> "none", source |-> "none", phrase |-> None,
            c0 |-> 0, synced |-> FALSE, status |-> None]

\* Whether the store has rows for the request: the plot functions return
\* None, and the endpoint aborts with 404, when it has none.
HasPlotData(r) ==
    CASE r.source = "flu" -> \E x \in influenza_stat : x.year = FluYear
      [] r.source = "ya" ->
            \E x \in yandex_word_stat : x.phrase = r.phrase /\ x.year = today.year
      [] r.source = "gt" ->
            \E x \in google_trends_stat : x.phrase = r.phrase /\ x.year = today.year

\* A request reaches a plot endpoint.  The Bulletin endpoints call
\* parser.update_statistics_data() first (lines 56 and 87); the others go
\* straight to the plot function (lines 122, 156 and 190).
AppRequest ==
    /\ req.pc \in {"idle", "done"}
    /\ \E e \in Endpoints, phrase \in GwPhrases :
          /\ e.source = source
          /\ e.source = "flu" => cycles < MaxCycles
          /\ req' = [ReqIdle EXCEPT
                       !.pc = IF e.source = "flu" THEN "sync" ELSE "read",
                       !.route = e.route, !.source = e.source,
                       !.phrase = IF e.source = "flu" THEN None ELSE phrase,
                       !.c0 = cycles]
    /\ UNCHANGED <<gwVars, gen, tr, main, mode, source, cycles, faults, prev, fluVars,
                   yaVars, gtVars, post>>

\* Lines 56 and 87: the Bulletin cycle of the request starts.
AppSync ==
    /\ req.pc = "sync"
    /\ cycles = req.c0
    /\ FluStart(1)

\* Lines 57-65, 88-96, 122-130, 156-164 and 190-198: read the rows and
\* answer, for a Bulletin request once its cycle has returned.
AppRead ==
    /\ \/ req.pc = "read"
       \/ req.pc = "sync" /\ cycles = req.c0 + 1 /\ flu[1].pc = "idle"
    /\ req' = [req EXCEPT !.pc = "done",
                          !.synced = (req.pc = "sync"),
                          !.status = IF HasPlotData(req) THEN 200 ELSE 404]
    /\ UNCHANGED <<gwVars, gen, tr, main, mode, source, cycles, faults, prev, fluVars,
                   yaVars, gtVars, post>>

-----------------------------------------------------------------------------
(* Initial states and next-state relations.                                *)

\* The registry holding the phrases 1..n, each once.
Registry(n) == {[id |-> k, phrase |-> k] : k \in 1..n}

InitFlu ==
    \E k \in IF mode = "conc" THEN {0, StoredWeeks} ELSE 0..StoredWeeks :
       /\ influenza_stat = insert_values_into_influenza_stat_table(
                              {}, 0, [i \in 1..k |-> <<FluYear, i, Rate>>])
       /\ flu_seq = k
       /\ published \in k..(k + MaxNew)

NoFlu ==
    /\ influenza_stat = {}
    /\ flu_seq = 0
    /\ published = 0

\* The stored states the AdPlatform cycles start from: n registered
\* phrases, of which the first k have a row of December 2021; no QuotaState
\* row, one of the last hour (with QuotaUsed phrases, or with all of
\* DailyLimit when "spent") or one older than a day; the month of today;
\* the phrases without data; r reports left at the provider.
YaScenarios ==
    {[n |-> n, k |-> 0, quota |-> "none", month |-> 3, nodata |-> {}, r |-> 0] :
        n \in {0, 2, ManyPhrases}}
    \cup {[n |-> 2, k |-> 1, quota |-> "none", month |-> 1, nodata |-> {}, r |-> 0]}
    \cup {[n |-> ManyPhrases, k |-> 0, quota |-> "none", month |-> 3, nodata |-> nd, r |-> r] :
        nd \in {{}, {2}}, r \in {0, MaxReports - 1}}
    \cup {[n |-> 2, k |-> 0, quota |-> q, month |-> 3, nodata |-> {}, r |-> 0] :
        q \in {"recent", "old", "spent"}}
    \cup {[n |-> QuotaPhrases, k |-> 0, quota |-> "recent", month |-> 3, nodata |-> {}, r |-> 0]}

\* The scenarios of the overlapping cycles: one chunk of phrases.
YaScenariosConc ==
    {[n |-> 2, k |-> 0, quota |-> q, month |-> 3, nodata |-> {}, r |-> 0] :
        q \in {"none", "recent"}}

InitYa ==
    \E s \in IF mode = "conc" THEN YaScenariosConc ELSE YaScenarios :
       /\ phrases = Registry(s.n)
       /\ ph_seq = s.n
       /\ yandex_word_stat = insert_values_into_yandex_word_stat_table(
              {}, 0, [j \in 1..s.k |-> <<2021, 12, j, Shows>>])
       /\ ya_seq = s.k
       /\ last_ya_word_stat_req =
              IF s.quota = "none" THEN {}
              ELSE {[id |-> 1,
                     phrases_number |-> IF s.quota = "spent" THEN DailyLimit
                                        ELSE QuotaUsed,
                     request_date |-> IF s.quota = "old" THEN 0 ELSE now - 1]}
       /\ req_seq = IF s.quota = "none" THEN 0 ELSE 1
       /\ today = [year |-> 2022, month |-> s.month, week |-> 4 * s.month]
       /\ nodata = s.nodata
       /\ reports = 1..s.r
       /\ rep_seq = s.r

NoYa ==
    /\ yandex_word_stat = {} /\ ya_seq = 0
    /\ last_ya_word_stat_req = {} /\ req_seq = 0
    /\ today = [year |-> 2022, month |-> 3, week |-> 12]
    /\ nodata = {}
    /\ reports = {} /\ rep_seq = 0

NoRegistry == phrases = {} /\ ph_seq = 0

\* Rows of Google Trends stored by earlier runs: weeks 1..2 of phrase 1,
\* the last of them d times.
InitGt ==
    /\ phrases = Registry(2) /\ ph_seq = 2
    /\ \E d \in 0..3 :
          LET data == [i \in 1..d |-> <<2022, Min2(i, 2), 1, Shows>>]
          IN  /\ google_trends_stat =
                    insert_values_into_google_trends_stat_table({}, 0, data)
              /\ gt_seq = d

NoGt == google_trends_stat = {} /\ gt_seq = 0

Idle ==
    /\ cycles = 0
    /\ faults = 0
    /\ prev = "none"
    /\ now = Day + 1
    /\ sent = <<>>
    /\ flu = [p \in Procs |-> FluIdle]
    /\ ya = [p \in Procs |-> YaIdle]
    /\ gt = [p \in Procs |-> GtIdle]
    /\ post = [p \in Procs |-> PostIdle]
    /\ op = "none"
    /\ pre = {}
    /\ ret = NoRet
    /\ gen = GenIdle
    /\ tr = TrIdle
    /\ main = MainIdle
    /\ req = ReqIdle

\* One source has data and the others are empty.
InitData ==
    /\ Idle
    /\ \/ source = "flu" /\ InitFlu /\ NoRegistry /\ NoYa /\ NoGt
       \/ source = "ya" /\ NoFlu /\ InitYa /\ NoGt
       \/ source = "gt" /\ NoFlu /\ NoYa /\ InitGt

Init == mode = "seq" /\ InitData
InitConc == mode = "conc" /\ InitData
InitGateway == mode = "gateway" /\ source = "none" /\ Idle /\ NoFlu /\ NoRegistry /\ NoYa /\ NoGt

\* The operations called on their own start from empty tables: the
\* generator on a list of any length up to MaxLen and get_phrase_statistics
\* of the AdPlatform client, or get_phrase_statistics of the Trends client.
InitCalls ==
    /\ mode = "calls" /\ source \in {"ya", "gt"}
    /\ cycles = 0 /\ faults = 0 /\ prev = "none" /\ now = Day + 1 /\ sent = <<>>
    /\ flu = [p \in Procs |-> FluIdle]
    /\ ya = [p \in Procs |-> YaIdle]
    /\ gt = [p \in Procs |-> GtIdle]
    /\ post = [p \in Procs |-> PostIdle]
    /\ op = "none" /\ pre = {} /\ ret = NoRet
    /\ NoFlu /\ NoRegistry /\ NoYa /\ NoGt
    /\ tr = TrIdle
    /\ main = MainIdle
    /\ req = ReqIdle
    /\ \E n \in IF source = "ya" THEN 0..MaxLen ELSE {0} :
          gen = [GenIdle EXCEPT !.sequence = UpTo(n)]

Next ==
    \/ \E p \in Procs : FluStart(p)
    \/ \E p \in Procs : FluReadCursor(p)
    \/ \E p \in Procs : FluGetWeekNumbers(p)
    \/ \E p \in Procs : FluFetch(p)
    \/ \E p \in Procs : FluWrite(p)
    \/ Publish
    \/ \E p \in Procs : YaStart(p)
    \/ \E p \in Procs : YaReadQuota(p)
    \/ \E p \in Procs : YaSelect(p)
    \/ \E p \in Procs : YaRequest(p)
    \/ \E p \in Procs : YaPoll(p)
    \/ \E p \in Procs : YaGetReport(p)
    \/ \E p \in Procs : YaAdd(p)
    \/ \E p \in Procs : YaDelete(p)
    \/ \E p \in Procs : YaDedup(p)
    \/ \E p \in Procs : YaWrite(p)
    \/ \E p \in Procs : YaPrune(p)
    \/ \E p \in Procs : GtStart(p)
    \/ \E p \in Procs : GtSelect(p)
    \/ \E p \in Procs : GtDedup(p)
    \/ \E p \in Procs : PostInsert(p)
    \/ \E p \in Procs : PostDedup(p)

NextGateway ==
    \/ GwGetPhrases
    \/ GwInsertPhrases
    \/ GwInsertTrends
    \/ GwInsertYandex
    \/ GwDedupPhrases
    \/ GwDedupTrends
    \/ GwDedupYandex

\* The batch run starts on any registry and any stored Trends rows.
InitMain ==
    /\ mode = "main" /\ source = "gt"
    /\ cycles = 0 /\ faults = 0 /\ prev = "none" /\ now = Day + 1 /\ sent = <<>>
    /\ flu = [p \in Procs |-> FluIdle]
    /\ ya = [p \in Procs |-> YaIdle]
    /\ gt = [p \in Procs |-> GtIdle]
    /\ post = [p \in Procs |-> PostIdle]
    /\ op = "none" /\ pre = {} /\ ret = NoRet
    /\ gen = GenIdle /\ tr = TrIdle
    /\ main = [MainIdle EXCEPT !.pc = "csv"]
    /\ req = ReqIdle
    /\ NoFlu /\ NoYa
    /\ \E n \in 0..2 : phrases = Registry(n) /\ ph_seq = n
    /\ \E d \in 0..3 :
          LET data == [i \in 1..d |-> <<2022, Min2(i, 2), 1, Shows>>]
          IN  /\ google_trends_stat =
                    insert_values_into_google_trends_stat_table({}, 0, data)
              /\ gt_seq = d

NextMain ==
    \/ MainImport
    \/ MainImportDedup
    \/ MainTrends
    \/ GtSelect(1)
    \/ GtDedup(1)
    \/ MainClient

\* The endpoints serve requests on any stored state of one source.
InitApp == mode = "app" /\ InitData

NextApp ==
    \/ AppRequest
    \/ AppSync
    \/ FluReadCursor(1)
    \/ FluGetWeekNumbers(1)
    \/ FluFetch(1)
    \/ FluWrite(1)
    \/ AppRead

NextCalls ==
    \/ ChunksYield
    \/ TrCall
    \/ TrFetch
    \/ TrSave
    \/ \E p \in Procs : YaCall(p)
    \/ \E p \in Procs : YaRequest(p)
    \/ \E p \in Procs : YaPoll(p)
    \/ \E p \in Procs : YaGetReport(p)
    \/ \E p \in Procs : YaAdd(p)
    \/ \E p \in Procs : YaDelete(p)
    \/ \E p \in Procs : YaDedup(p)

\* get_phrase_statistics of the AdPlatform client called on lists of its
\* caller, from empty tables.
InitReports ==
    /\ mode = "reports" /\ source = "ya"
    /\ Idle /\ NoFlu /\ NoRegistry /\ NoYa /\ NoGt

NextReports ==
    \/ \E p \in Procs : YaCall(p)
    \/ \E p \in Procs : YaRequest(p)
    \/ \E p \in Procs : YaPoll(p)
    \/ \E p \in Procs : YaGetReport(p)
    \/ \E p \in Procs : YaAdd(p)
    \/ \E p \in Procs : YaDelete(p)
    \/ \E p \in Procs : YaDedup(p)

Spec == Init /\ [][Next]_vars
SpecConc == InitConc /\ [][Next]_vars
SpecGateway == InitGateway /\ [][NextGateway]_vars
SpecCalls == InitCalls /\ [][NextCalls]_vars
SpecMain == InitMain /\ [][NextMain]_vars
SpecApp == InitApp /\ [][NextApp]_vars

\* The report loop of get_phrase_statistics called on its own, with the
\* failures of the provider and of the store; a polling loop that can take
\* a turn takes it.
SpecReports ==
    InitReports /\ [][NextReports]_vars /\ \A p \in Procs : WF_vars(YaPoll(p))

-----------------------------------------------------------------------------
(* Properties.                                                             *)

\* The step ends the cycle of p.
EndsFlu(p) == flu[p].pc # "idle" /\ flu'[p].pc = "idle"
EndsYa(p) == ya[p].pc # "idle" /\ ya'[p].pc = "idle"
EndsGt(p) == gt[p].pc # "idle" /\ gt'[p].pc = "idle"

\* The cycle of p started less than a day after the stored request, with
\* the stored count below the limit.
InWindow(p) ==
    /\ ya[p].q.date # None
    /\ now - ya[p].q.date < Day
    /\ ya[p].q.num < DailyLimit

\* C1: a cycle that starts inside the 24-hour window with stored count
\* c < 1000 never submits more than 1000 - c phrases, and when nothing fails
\* and no report times out it submits min(pending, 1000 - c) of them (50 for
\* c = 950 and 100 pending).
C1_QuotaBound ==
    [][\A p \in Procs :
          (ya[p].pc # "idle" /\ InWindow(p)) =>
             /\ ya'[p].submitted <= DailyLimit - ya[p].q.num
             /\ (EndsYa(p) /\ faults' = 0 /\ ~ ya'[p].timedout) =>
                   ya'[p].submitted = Min2(ya[p].pend0, DailyLimit - ya[p].q.num)]_vars

\* The cycle of p has read QuotaState and has not yet written it.
InFlight(p) ==
    ya[p].pc \in {"select", "request", "poll", "fetch", "add", "delete", "dedup", "write"}

\* The phrases of the entries j..Len(sent) of the log sent from time t on,
\* less than a day later.
RECURSIVE SentFrom(_, _)
SentFrom(j, t) ==
    IF j > Len(sent) THEN 0
    ELSE (IF sent[j][1] >= t /\ sent[j][1] < t + Day THEN sent[j][2] ELSE 0)
         + SentFrom(j + 1, t)

\* C2: at most one AdPlatform cycle is between its QuotaState read and its
\* QuotaState write, and no 24-hour window sees more than 1000 phrases
\* submitted.
C2_OneCycleInFlight ==
    /\ Cardinality({p \in Procs : InFlight(p)}) <= 1
    /\ \A i \in 1..Len(sent) : SentFrom(1, sent[i][1]) <= DailyLimit

\* C3: when a cycle of a source follows a cycle of the same source, with
\* no publication and no registry write in between and no failure, the
\* row counts of every (entity, year) at its end are those at its start.
C3_SecondCycleKeepsCounts ==
    [][\A p \in Procs :
          /\ (EndsFlu(p) /\ flu[p].again /\ faults' = 0) => FluCounts' = flu[p].snap
          /\ (EndsYa(p) /\ ya[p].again /\ faults' = 0) => YaCounts' = ya[p].snap
          /\ (EndsGt(p) /\ gt[p].again /\ faults' = 0) => GtCounts' = gt[p].snap]_vars

\* A second Bulletin cycle in a row has read the cursor and the published
\* weeks of a non-empty table and is about to write.
C3_Witness ==
    \E p \in Procs :
       /\ flu[p].pc = "write" /\ flu[p].again /\ faults = 0
       /\ flu[p].snap # {} /\ flu[p].week_numbers # <<>>

\* The largest period stored for key k, None when there is no row.
Cursor(table, key(_), period(_), k) ==
    LET ps == {period(r) : r \in {x \in table : key(x) = k}}
    IN  IF ps = {} THEN None ELSE Max(ps)

FluCursor(table, k) ==
    Cursor(table, LAMBDA r : <<r.year>>, LAMBDA r : r.week_number, k)
YaCursor(table, k) ==
    Cursor(table, LAMBDA r : <<r.phrase, r.year>>, LAMBDA r : r.month, k)
GtCursor(table, k) ==
    Cursor(table, LAMBDA r : <<r.phrase, r.year>>, LAMBDA r : r.week_number, k)

\* C4: no step of a cycle, of a dedup pass or of a registry write lowers
\* the cursor max(period) of an (entity, year) of any source.
C4_CursorNeverDecreases ==
    [][/\ influenza_stat' # influenza_stat =>
             \A k \in {<<r.year>> : r \in influenza_stat} :
                FluCursor(influenza_stat', k) >= FluCursor(influenza_stat, k)
       /\ yandex_word_stat' # yandex_word_stat =>
             \A k \in {<<r.phrase, r.year>> : r \in yandex_word_stat} :
                YaCursor(yandex_word_stat', k) >= YaCursor(yandex_word_stat, k)
       /\ google_trends_stat' # google_trends_stat =>
             \A k \in {<<r.phrase, r.year>> : r \in google_trends_stat} :
                GtCursor(google_trends_stat', k) >= GtCursor(google_trends_stat, k)]_vars

\* The dedup pass of a Trends cycle has removed a duplicate of week 2 and
\* the cursor of phrase 1 is still week 2.
C4_Witness ==
    /\ source = "gt" /\ gt_seq = 3
    /\ Cardinality(google_trends_stat) = 2
    /\ GtCursor(google_trends_stat, <<1, 2022>>) = 2

\* C5: after a dedup pass a second pass changes nothing, and every key
\* that had a row before the pass still has one.
C5_DedupIdempotent ==
    /\ op = "delete_duplicates_from_phrases_table" =>
          /\ delete_duplicates_from_phrases_table(phrases) = phrases
          /\ \A r \in pre : \E x \in phrases : x.phrase = r.phrase
    /\ op = "delete_duplicates_from_google_trends_stat_table" =>
          /\ delete_duplicates_from_google_trends_stat_table(google_trends_stat)
                = google_trends_stat
          /\ \A r \in pre : \E x \in google_trends_stat :
                <<x.year, x.week_number, x.phrase>> = <<r.year, r.week_number, r.phrase>>
    /\ op = "delete_duplicates_from_yandex_word_stat_table" =>
          /\ delete_duplicates_from_yandex_word_stat_table(yandex_word_stat)
                = yandex_word_stat
          /\ \A r \in pre : \E x \in yandex_word_stat :
                <<x.year, x.month, x.phrase>> = <<r.year, r.month, r.phrase>>

\* A dedup pass has run on a yandex_word_stat table holding three rows of
\* one key.
C5_Witness ==
    /\ op = "delete_duplicates_from_yandex_word_stat_table"
    /\ \E r \in pre :
          Cardinality({x \in pre : <<x.year, x.month, x.phrase>>
                                      = <<r.year, r.month, r.phrase>>}) = 3
    /\ Cardinality(yandex_word_stat) < Cardinality(pre)

\* The rows of a key left by a pass are the one row with the highest id
\* among the rows before, for every key, and no row is new.
KeepsNewest(before, after, key(_)) ==
    /\ after \subseteq before
    /\ \A r \in before :
          LET same == {x \in before : key(x) = key(r)}
          IN  {x \in after : key(x) = key(r)}
                 = {CHOOSE x \in same : \A y \in same : y.id <= x.id}

\* C6: after a dedup pass every natural key has exactly one row, the one
\* with the highest id among the rows it had before; a row whose key was
\* unique is left as it was.
C6_DedupKeepsNewest ==
    /\ op = "delete_duplicates_from_phrases_table" =>
          KeepsNewest(pre, phrases, LAMBDA r : <<r.phrase>>)
    /\ op = "delete_duplicates_from_google_trends_stat_table" =>
          KeepsNewest(pre, google_trends_stat,
                      LAMBDA r : <<r.year, r.week_number, r.phrase>>)
    /\ op = "delete_duplicates_from_yandex_word_stat_table" =>
          KeepsNewest(pre, yandex_word_stat, LAMBDA r : <<r.year, r.month, r.phrase>>)

\* A dedup pass has run on a registry holding a phrase twice and another
\* phrase once.
C6_Witness ==
    /\ op = "delete_duplicates_from_phrases_table"
    /\ \E r \in pre : Cardinality({x \in pre : x.phrase = r.phrase}) = 2
    /\ \E r \in pre : Cardinality({x \in pre : x.phrase = r.phrase}) = 1
    /\ Cardinality(phrases) = 2

\* C7: the weeks a Bulletin cycle fetches are published weeks above the
\* stored cursor of the year (any published week when no row is stored),
\* each once, and all of them when no call fails.
C7_FetchesAboveCursor ==
    [][\A p \in Procs :
          (flu[p].pc = "fetch" /\ flu'[p].pc = "write") =>
             LET cursor == get_max_week_number(influenza_stat, FluYear)
                 data == flu'[p].data
                 fetched == {data[i][2] : i \in 1..Len(data)}
                 expected == {w \in 1..published : cursor = None \/ w > cursor}
             IN  /\ fetched \subseteq expected
                 /\ Cardinality(fetched) = Len(data)
                 /\ faults' = 0 => fetched = expected]_vars

\* With cursor 10 and weeks 1-12 published a cycle has fetched weeks 11
\* and 12.
C7_Witness ==
    \E p \in Procs :
       /\ flu[p].pc = "write"
       /\ get_max_week_number(influenza_stat, FluYear) = 10
       /\ published = 12
       /\ [i \in 1..Len(flu[p].data) |-> flu[p].data[i][2]] = <<11, 12>>

\* C8: once the Bulletin cycles have completed, overlapping or not, the
\* table holds one row per (year, week).
C8_OneRowPerWeek ==
    (\A p \in Procs : flu[p].pc = "idle") =>
       \A r1, r2 \in influenza_stat :
          (r1.year = r2.year /\ r1.week_number = r2.week_number) => r1 = r2

\* The rows of yandex_word_stat the cycle of p inserted, as
\* (year, month, phrase, shows).
Committed(p) ==
    {<<r.year, r.month, r.phrase, r.shows>> :
        r \in {x \in yandex_word_stat : x.id \in ya[p].ids}}

\* C9: at the end of an AdPlatform cycle the rows it committed are the
\* entries of the reports it fetched.
C9_CommittedAreFetched ==
    \A p \in Procs :
       ya[p].pc \in {"write", "prune", "idle"} => Committed(p) = ya[p].fetched

\* The number of chunks of n phrases.
NumChunks(n) == (n + ChunkSize - 1) \div ChunkSize

\* C10: a cycle in which the polling of a chunk timed out has still
\* requested every chunk by its end.
C10_TimeoutKeepsGoing ==
    \A p \in Procs :
       (ya[p].pc \in {"write", "prune", "idle"} /\ ya[p].timedout) =>
          ya[p].nreq = NumChunks(Len(ya[p].phrases))

\* The concatenation of the lists of a list.
RECURSIVE Concat(_)
Concat(ss) == IF ss = <<>> THEN <<>> ELSE Head(ss) \o Concat(Tail(ss))

\* The size of chunk k of a list of n elements.
ChunkLen(n, k) == Min2(ChunkSize, n - (k - 1) * ChunkSize)

\* C11: the chunks yielded from a list of n phrases have 1 to 10 phrases
\* each and concatenate, in order, to the part of the list consumed; the
\* exhausted generator has yielded ceil(n/10) of them, all of the list.
\* get_phrase_statistics sends one request per chunk it reaches, of the
\* size of that chunk and never of more than 10 phrases, and ceil(n/10)
\* requests when its loop runs through.
C11_ChunksPartition ==
    /\ \A k \in 1..Len(gen.yielded) : Len(gen.yielded[k]) \in 1..ChunkSize
    /\ Concat(gen.yielded) = SubSeq(gen.sequence, 1, Min2(gen.i, Len(gen.sequence)))
    /\ ~ (gen.i < Len(gen.sequence)) =>
          /\ Len(gen.yielded) = NumChunks(Len(gen.sequence))
          /\ Concat(gen.yielded) = gen.sequence
    /\ \A p \in {x \in Procs : ya[x].pc # "idle"} :
          /\ Len(sent) = ya[p].nreq
          /\ ya[p].nreq <= NumChunks(Len(ya[p].phrases))
          /\ \A k \in 1..Len(sent) :
                /\ sent[k][2] = ChunkLen(Len(ya[p].phrases), k)
                /\ sent[k][2] \in 1..ChunkSize
          /\ ya[p].pc = "dedup" => ya[p].nreq = NumChunks(Len(ya[p].phrases))

\* A list of MaxLen = 25 phrases has been split into chunks of 10, 10 and
\* 5, and get_phrase_statistics has sent three requests of these sizes for
\* such a list.
C11_Witness ==
    /\ Len(gen.sequence) = MaxLen
    /\ ~ (gen.i < Len(gen.sequence))
    /\ [k \in 1..Len(gen.yielded) |-> Len(gen.yielded[k])]
          = <<ChunkSize, ChunkSize, MaxLen - 2 * ChunkSize>>
    /\ ya[1].pc = "dedup"
    /\ [k \in 1..Len(sent) |-> sent[k][2]]
          = <<ChunkSize, ChunkSize, MaxLen - 2 * ChunkSize>>

\* The cycle of p started less than a day after the stored request, with
\* the stored count at the limit or above.
Exhausted(p) ==
    /\ ya[p].q.date # None
    /\ now - ya[p].q.date < Day
    /\ DailyLimit - ya[p].q.num < 1

\* C12: a cycle that starts inside the 24-hour window with
\* 1000 - phrases_consumed below 1 makes no provider call and changes no
\* stored data, QuotaState included.
C12_ExhaustedQuotaSkips ==
    [][\A p \in Procs :
          (ya[p].pc # "idle" /\ Exhausted(p)) =>
             /\ ya'[p].pc \notin {"request", "poll", "fetch", "delete"}
             /\ ya'[p].nreq = ya[p].nreq
             /\ <<sent, reports, rep_seq>>' = <<sent, reports, rep_seq>>
             /\ yaTables' = yaTables]_vars

\* The cycle of p found no QuotaState row, or one at least a day old.
Elapsed(p) == ya[p].q.date = None \/ now - ya[p].q.date >= Day

\* C13: a cycle that finds no QuotaState row, or a row at least 24 hours
\* old, runs with the limit 1000 and writes, when nothing fails, a row
\* dated now whose count is the number of phrases of this cycle alone; a
\* cycle inside the window runs with the limit 1000 - phrases_consumed.
C13_QuotaResets ==
    [][\A p \in Procs :
          (EndsYa(p) /\ faults' = 0) =>
             /\ Elapsed(p) =>
                   /\ ya'[p].limit = DailyLimit
                   /\ \E r \in last_ya_word_stat_req' :
                         /\ r.request_date = now'
                         /\ r.phrases_number = Len(ya'[p].phrases)
             /\ InWindow(p) => ya'[p].limit = DailyLimit - ya[p].q.num]_vars

\* C14: the QuotaState row a cycle writes, whether its chunk loop ran
\* through or stopped early, is dated now and counts the stored in-window
\* count plus the phrases of the requests the provider accepted in this
\* cycle.
C14_QuotaCountsSubmitted ==
    [][\A p \in Procs :
          (ya[p].pc = "write" /\ ya'[p].pc = "prune" /\ faults' = 0) =>
             \E r \in last_ya_word_stat_req' :
                /\ r.request_date = now'
                /\ r.phrases_number =
                      (IF InWindow(p) THEN ya[p].q.num ELSE 0) + ya[p].submitted]_vars

\* C15: a cycle inside the window that finds more pending phrases than
\* 1000 - phrases_consumed ends by raising QuotaExhausted to its caller.
C15_TruncationRaises ==
    [][\A p \in Procs :
          (EndsYa(p) /\ faults' = 0 /\ InWindow(p)
              /\ ya[p].pend0 > DailyLimit - ya[p].q.num) =>
             ya'[p].raised = "QuotaExhausted"]_vars

\* The rows of google_trends_stat the last save inserted, in the order of
\* the batch, as (year, week_number, phrase, shows_percent).
Saved ==
    IF tr.first_id = None THEN <<>>
    ELSE [k \in 1..Len(tr.data) |->
            LET r == CHOOSE x \in google_trends_stat : x.id = tr.first_id + k
            IN  <<r.year, r.week_number, r.phrase, r.shows_percent>>]

\* C16: when the first bucket of the series save_data_to_db receives has
\* ISO week 52, the row built for that bucket, and stored when the insert
\* succeeds, is week 1 of the year of date_start.
C16_FirstBucketIsWeekOne ==
    (tr.pc = "done" /\ tr.data # <<>> /\ tr.df[1].date = LastWeek) =>
       /\ tr.data[1] = <<today.year, 1, tr.phrase, tr.df[1].shows>>
       /\ Saved # <<>> => Saved[1] = tr.data[1]

\* A series of three buckets starting in ISO week 52 has been saved and
\* stored.
C16_Witness ==
    /\ tr.pc = "done"
    /\ Len(tr.df) = MaxBuckets
    /\ tr.df[1].date = LastWeek
    /\ Len(Saved) = MaxBuckets

\* C17: the phrases a Trends cycle hands to get_phrase_statistics, the
\* elements of its list phrases, are the registered phrases with no stored
\* row of the cursor year at or after the previous week.
C17_CallsPendingPhrases ==
    \A p \in Procs :
       gt[p].pc = "dedup" =>
          Range(gt[p].phrases) =
             Range(get_new_google_trends_phrases(phrases, google_trends_stat,
                                                 gt[p].year, gt[p].week))

\* C18: the batch update_statistics_data hands to the store has one row
\* per fetched week whose page yielded a rate and no row for a week whose
\* page yielded none.
C18_NoRowWithoutValue ==
    \A p \in Procs :
       flu[p].pc = "write" =>
          /\ \A i \in 1..Len(flu[p].data) : flu[p].data[i][3] # None
          /\ Len(flu[p].data)
                = Cardinality({i \in 1..Len(flu[p].pages) : flu[p].pages[i] = "rate"})

\* C19: a request error on the page of one week leaves that week without
\* a value and no other: every week to fetch is fetched, the batch has the
\* rate of every week whose page gave one, and these rows are inserted
\* when the insert succeeds.
C19_RequestErrorLosesOneWeek ==
    [][\A p \in Procs :
          /\ (flu[p].pc = "fetch" /\ flu'[p].pc = "write") =>
                LET todo == WeeksToFetch(flu[p].last_week_number, flu[p].week_numbers)
                    pages == flu'[p].pages
                    data == flu'[p].data
                IN  /\ Len(data) = Len(todo)
                    /\ \A i \in 1..Len(todo) :
                          /\ data[i][2] = todo[i]
                          /\ pages[i] = "error" => data[i][3] = None
                          /\ pages[i] = "rate" => data[i][3] = Rate
          /\ (flu[p].pc = "write" /\ flu'[p].pc = "idle" /\ faults' = faults) =>
                \A i \in 1..Len(flu[p].data) :
                   flu[p].pages[i] = "rate" =>
                      \E r \in influenza_stat' \ influenza_stat :
                         <<r.year, r.week_number, r.cases_number>> = flu[p].data[i]]_vars

\* A cycle has fetched two weeks: the request for the first failed and
\* the page of the second gave its rate.
C19_Witness ==
    \E p \in Procs :
       /\ flu[p].pc = "write"
       /\ flu[p].pages = <<"error", "rate">>
       /\ flu[p].data[2][3] = Rate

C21_BatchRunsEveryCycle ==
    main.pc = "end" => main.ran = {"gt", "ya"}

\* C22: what a gateway operation that failed hands to its caller is not
\* a value the operation can return when it succeeds.
C22_FailureIsReported ==
    ret.failed => ret.value \notin Seq(GwPhrases)

\* C23: a cycle adds rows to the table of its source in one step, taken
\* when no fetch of the cycle is left: an AdPlatform cycle inserts only
\* after the report of its last chunk and has inserted nothing before.
C23_OneInsertAfterAllFetches ==
    [][\A p \in Procs :
          (ya[p].pc = "add" /\ yandex_word_stat' # yandex_word_stat) =>
             /\ ya[p].ids = {}
             /\ ~ (ya[p].i + ChunkSize < Len(ya[p].phrases))]_vars

\* C24: a plot endpoint has run the sync cycle of its source before it
\* reads the rows and answers.
C24_SyncThenRead ==
    req.pc = "done" => req.synced

\* C25: once a POST to /phrases/ has completed, every phrase it submitted
\* is in the registry, and while no write is in progress the registry holds
\* each phrase string exactly once.
C25_PostedPhrasesRegisteredOnce ==
    \A p \in Procs :
       (post[p].pc = "idle" /\ post[p].data # <<>>) =>
          /\ Range(post[p].data) \subseteq {r.phrase : r \in phrases}
          /\ (\A q \in Procs : post[q].pc = "idle") =>
                \A r1, r2 \in phrases : r1.phrase = r2.phrase => r1 = r2

\* C26: for each chunk the polling loop sleeps TimeStep before every status
\* query, so the time waited is TimeStep times the number of queries and
\* never more than Timeout (at most Timeout / TimeStep = 5 queries); no
\* query follows one that returned Done; the chunk is given up as timed out
\* only with Timeout elapsed and no Done status; and the loop terminates.
C26_PollingIsBounded ==
    /\ [](\A p \in Procs :
             /\ ya[p].timer = ya[p].polls * TimeStep
             /\ ya[p].timer <= Timeout
             /\ ya[p].pc = "poll" => ~ ya[p].ready
             /\ ya[p].timedout => (ya[p].timer >= Timeout /\ ~ ya[p].ready))
    /\ [][\A p \in Procs :
             ya'[p].polls > ya[p].polls =>
                /\ ya[p].pc = "poll" /\ ~ ya[p].ready
                /\ ya'[p].polls = ya[p].polls + 1
                /\ ya'[p].timer = ya[p].timer + TimeStep]_vars
    /\ \A p \in Procs : (ya[p].pc = "poll") ~> (ya[p].pc # "poll")

\* A chunk is given up after its last query, Timeout after the request.
C26_Witness ==
    \E p \in Procs :
       ya[p].pc = "write" /\ ya[p].timedout /\ ya[p].polls * TimeStep = Timeout

\* C27: _get_phrase_statistics_df makes at most Timeout / TimeStep = 5
\* queries for a phrase; it queries again only after a ResponseError, having
\* waited TimeStep for each failed attempt; it gives up with Timeout
\* accumulated; a reply, empty or not, ends the loop at once; and rows are
\* written only for a reply with data.
C27_TrendsRetryIsBounded ==
    /\ [](/\ tr.queries * TimeStep <= Timeout
          /\ tr.timer = TimeStep * (IF tr.last \in {"none", "ResponseError"}
                                    THEN tr.queries ELSE tr.queries - 1)
          /\ tr.pc = "fetch" => tr.last \in {"none", "ResponseError"}
          /\ (tr.pc = "done" /\ tr.last = "ResponseError") =>
                (tr.timer >= Timeout /\ tr.first_id = None /\ tr.data = <<>>)
          /\ tr.last = "empty" =>
                (tr.pc = "done" /\ tr.first_id = None /\ tr.data = <<>>)
          /\ tr.last = "data" => tr.pc \in {"save", "done"})
    /\ [][/\ tr'.queries > tr.queries =>
                (tr.pc = "fetch" /\ tr'.queries = tr.queries + 1)
          /\ google_trends_stat' # google_trends_stat =>
                (tr.pc = "save" /\ tr.last = "data")]_vars

\* A call that gave up after its last query failed.
C27_Witness ==
    /\ tr.pc = "done" /\ tr.last = "ResponseError"
    /\ tr.queries * TimeStep = Timeout

\* C28: once request_report has returned no report id for a chunk, the
\* cycle makes no status, fetch, delete or request call and commits no row,
\* and the rows it committed for earlier chunks stay in the table.
C28_NoIdStopsTheLoop ==
    /\ [](\A p \in Procs :
             ya[p].noid =>
                /\ ya[p].pc \in {"write", "prune", "idle"}
                /\ ya[p].ids \subseteq {r.id : r \in yandex_word_stat})
    /\ [][\A p \in Procs :
             (ya[p].noid \/ (ya'[p].noid /\ ya'[p].nreq = ya[p].nreq + 1)) =>
                /\ yandex_word_stat' = yandex_word_stat
                /\ reports' = reports
                /\ sent' = sent]_vars

\* The request of a later chunk returned no id after rows were committed.
C28_Witness ==
    \E p \in Procs : ya[p].noid /\ ya[p].ids # {} /\ ya[p].raised = "none"

\* C29: in the chunk loop delete_report follows the insert of a fetched
\* report, a chunk is requested only after the deletion for the chunk
\* before it, and whatever the deletion's outcome the loop goes on to the
\* next chunk (to the de-duplication after the last one).
C29_DeleteThenNextChunk ==
    [][\A p \in Procs :
          ya'[p] # ya[p] =>
             /\ ya[p].pc = "add" => ya'[p].pc = "delete"
             /\ (ya'[p].pc = "request" /\ ya'[p].i > 0) => ya[p].pc = "delete"
             /\ ya[p].pc = "delete" =>
                   ya'[p].pc = IF ya[p].i + ChunkSize < Len(ya[p].phrases)
                               THEN "request" ELSE "dedup"]_vars

\* C30: a cycle that inserted rows leaves get_phrase_statistics through the
\* de-duplication of the AdPlatform table, also when a later chunk's
\* request failed, timed out or could not be fetched.
C30_DedupEndsEveryWritingCycle ==
    [][\A p \in Procs :
          (/\ ya[p].pc \in {"request", "poll", "fetch", "add", "delete", "dedup"}
           /\ ya'[p].pc \in {"write", "idle"}
           /\ ya[p].ids # {}) => ya[p].pc = "dedup"]_vars

\* C31: a provider call answered with an error reply (no "data") ends the
\* chunk loop as a network failure does: no exception leaves the cycle and
\* the cycle goes on to write the QuotaState.
C31_ErrorReplyHandledLikeNetworkFailure ==
    [][\A p \in Procs :
          (ya[p].pc \in {"request", "poll", "fetch", "delete"} /\ ya'[p] # ya[p]) =>
             /\ ya'[p].raised = "none"
             /\ ya'[p].pc # "idle"]_vars

\* C32: when the cursor read reports the error result, the cycle ends
\* there: the week list and the pages are never fetched with it, and the
\* step that ends the cycle leaves the rows and the cursor as they were.
C32_CursorErrorEndsCycle ==
    /\ [](\A p \in Procs :
             flu[p].last_week_number = DbError =>
                (flu[p].pc = "idle" /\ flu[p].week_numbers = <<>> /\ flu[p].data = <<>>))
    /\ [][\A p \in Procs :
             flu'[p].last_week_number = DbError =>
                /\ influenza_stat' = influenza_stat
                /\ flu_seq' = flu_seq
                /\ get_max_week_number(influenza_stat', FluYear) =
                      get_max_week_number(influenza_stat, FluYear)]_vars

\* A cycle ended on the error result with rows stored.
C32_Witness ==
    \E p \in Procs : flu[p].last_week_number = DbError /\ influenza_stat # {}

\* C33: when a QuotaState write (the insert and the deletion of the older
\* rows) has completed, the table holds exactly one row, the one the cycle
\* wrote, and get_last_req_info returns it.
C33_OneQuotaRowAfterWrite ==
    [][\A p \in Procs :
          (ya[p].pc = "prune" /\ ya'[p].pc = "idle") =>
             /\ Cardinality(last_ya_word_stat_req') = 1
             /\ get_last_req_info(last_ya_word_stat_req') =
                   {<<ya[p].req_date, ya[p].phrases_number>>}]_vars

\* C34: save_data_to_db changes the week of the first bucket only: every
\* other bucket of the series is stored with its own ISO week number.
C34_RemapChangesFirstBucketOnly ==
    (tr.pc = "done" /\ tr.data # <<>>) =>
       \A k \in 2..Len(tr.df) : tr.data[k][2] = tr.df[k].date

\* C35: once the chunk loop of a cycle is over, on whatever path, the
\* provider no longer holds the report the cycle created last (the earlier
\* ones were deleted before the next request).
C35_NoReportLeftBehind ==
    \A p \in Procs :
       (ya[p].pc \in {"write", "prune", "idle"} /\ ya[p].report_id # None) =>
          ya[p].report_id \notin reports

\* C36: a week whose page was lost to a request error is not covered by
\* the cursor when the cycle has written its batch, so that a later cycle
\* fetches it again.
C36_LostWeekStaysAboveCursor ==
    [][\A p \in Procs :
          (flu[p].pc = "write" /\ flu'[p].pc = "idle") =>
             \A i \in 1..Len(flu[p].data) :
                flu[p].pages[i] = "error" =>
                   LET cursor == get_max_week_number(influenza_stat', FluYear)
                   IN  cursor = None \/ cursor < flu[p].data[i][2]]_vars
====
